---- MODULE Spec2Model ----
(***************************************************************************)
(* Model of the two HTTP services of photography_server:                   *)
(*   deepface_server.py          (DeepFace AI Server)                      *)
(*   src/config/face_matching.py (Face Matching API)                       *)
(*                                                                         *)
(* Every handler is one atomic action: the handlers are "async def" with   *)
(* no await inside the DeepFace service, so a request runs to its response *)
(* without interleaving.  The face libraries are opaque: what they return  *)
(* or raise for a call is chosen by the environment (variable env).        *)
(* ConcSpec runs several requests at once, a batch-verify request one      *)
(* candidate at a time, which covers every schedule a server with more     *)
(* than one thread of control can produce.                                 *)
(*                                                                         *)
(* Numbers: distances, similarities and thresholds are fixed-point tenths  *)
(* (1.0 is One = 10, 0.4 is 4); match_rate is the fraction num/den that    *)
(* Python's true division is applied to.                                   *)
(***************************************************************************)
EXTENDS Integers, Sequences, FiniteSets, TLC

VARIABLES DEEPFACE_AVAILABLE, pc, endpoint, request, env, response,
          image_loads, capability_calls, globals, frames

vars == <<DEEPFACE_AVAILABLE, pc, endpoint, request, env, response,
          image_loads, capability_calls, globals, frames>>

(***************************************************************************)
(* Bounds of the model                                                     *)
(***************************************************************************)
MaxUrls == 3
MaxFaces == 2
MaxEventImages == 2
ConcMaxUrls == 2

(***************************************************************************)
(* Program constants                                                       *)
(***************************************************************************)
AVAILABLE_MODELS == {"VGG-Face", "Facenet", "OpenFace", "DeepFace", "DeepID", "ArcFace"}
AVAILABLE_DETECTORS == {"opencv", "ssd", "mtcnn", "dlib", "retinaface"}
AVAILABLE_METRICS == {"cosine", "euclidean", "euclidean_l2"}

\* the literal 1 / 1.0 of "1 - distance", in tenths
One == 10
\* Form(0.4), the default threshold of batch-verify and of result.get("threshold", 0.4)
DefaultThreshold == 4
\* face.get("confidence", 0.9)
DefaultConfidence == 9
\* FACE_MATCH_THRESHOLD = 0.6
FACE_MATCH_THRESHOLD == 6

(***************************************************************************)
(* Values                                                                  *)
(***************************************************************************)
None == "None"
NoFaceMsg == "Face could not be detected. Please confirm that the picture is a face photo"
OtherMsg == "library failure"

\* Python truthiness of an Optional[str] form field / Optional[UploadFile]
Truthy(v) == v # None /\ v # ""

\* exceptions: HTTPException is a subclass of Exception
HTTPException(status_code, detail) ==
    [class |-> "HTTPException", status_code |-> status_code, detail |-> detail, inner |-> ""]
HTTPExceptionFrom(status_code, detail, inner) ==
    [class |-> "HTTPException", status_code |-> status_code, detail |-> detail, inner |-> inner]
Exception(msg) ==
    [class |-> "Exception", status_code |-> 0, detail |-> msg, inner |-> ""]

\* str(e): the text an f-string embeds; for HTTPException it carries the
\* detail (which embeds the inner message)
Str(e) == [text |-> e.detail, inner |-> e.inner]

\* "Face could not be detected" in error_msg
MentionsNoFace(error_msg) == error_msg.text = NoFaceMsg \/ error_msg.inner = NoFaceMsg

\* outcome of a block of code: a value or a raised exception
Ok(v) == [raised |-> FALSE, value |-> v, exc |-> Exception("")]
Raised(e) == [raised |-> TRUE, value |-> None, exc |-> e]

\* a dict returned by the library: keys present, and their values
\* (dict.get(key, default))
Get(d, key, default) == IF key \in d.keys THEN d[key] ELSE default

(***************************************************************************)
(* Image loading                                                           *)
(***************************************************************************)
\* an uploaded file either decodes or not
load_image_from_file(file) ==
    IF file = "valid" THEN Ok("pixels")
    ELSE Raised(HTTPException(400, "Failed to load image"))

\* a URL fetch succeeds or fails (network, status, decode): fetched is the
\* environment's answer for this call
load_image_from_url(url, fetched) ==
    IF fetched THEN Ok("pixels")
    ELSE Raised(HTTPException(400, "Failed to load image from URL"))

(***************************************************************************)
(* Responses                                                               *)
(***************************************************************************)
NoBody == [success |-> FALSE]
NoDetail == [prefix |-> "", text |-> "", inner |-> ""]

\* a returned dict: FastAPI answers it with HTTP 200
Return(body) == [status_code |-> 200, body |-> body, detail |-> NoDetail]

\* a raised HTTPException leaving the handler: FastAPI answers its status
Raise(e) ==
    [status_code |-> e.status_code, body |-> NoBody,
     detail |-> [prefix |-> "", text |-> e.detail, inner |-> e.inner]]

\* raise HTTPException(status_code=500, detail=f"<prefix>: {error_msg}")
RaiseWrapped(prefix, error_msg) ==
    [status_code |-> 500, body |-> NoBody,
     detail |-> [prefix |-> prefix, text |-> error_msg.text, inner |-> error_msg.inner]]

\* what a handler did: its HTTP answer, the calls of load_image_from_file /
\* load_image_from_url it made and the calls of the face library it made
Handled(resp, loads, calls) ==
    [response |-> resp, image_loads |-> loads, capability_calls |-> calls]

(***************************************************************************)
(* The face library (opaque): DeepFace.verify                              *)
(***************************************************************************)
EmptyDict == [keys |-> {}, distance |-> 0, verified |-> FALSE, threshold |-> 0]

VerifyReturns(d) == [raised |-> FALSE, value |-> d, exc |-> Exception("")]
VerifyRaises(msg) == [raised |-> TRUE, value |-> EmptyDict, exc |-> Exception(msg)]

VerifyDict(distance, verified) ==
    [keys |-> {"distance", "verified", "threshold"}, distance |-> distance,
     verified |-> verified, threshold |-> 4]

\* result dicts of DeepFace.verify: a distance in tenths (0.2, 0.8, and 1.5:
\* euclidean distances exceed 1) with the library's own verdict, or a dict
\* with neither key
VerifyDicts ==
    { VerifyDict(2, TRUE), VerifyDict(2, FALSE), VerifyDict(8, TRUE),
      VerifyDict(15, FALSE), EmptyDict }

\* what one call of DeepFace.verify does
VerifyOutcomes ==
    { VerifyReturns(d) : d \in VerifyDicts } \cup { VerifyRaises(m) : m \in {NoFaceMsg, OtherMsg} }

(***************************************************************************)
(* Stable sort by similarity, descending (list.sort(key=..., reverse=True)) *)
(***************************************************************************)
RECURSIVE InsertDesc(_, _)
\* x goes behind every element whose similarity is not smaller
InsertDesc(s, x) ==
    IF Len(s) = 0 THEN <<x>>
    ELSE IF Head(s).similarity >= x.similarity
         THEN <<Head(s)>> \o InsertDesc(Tail(s), x)
         ELSE <<x>> \o s

RECURSIVE SortInto(_, _)
SortInto(sorted, rest) ==
    IF Len(rest) = 0 THEN sorted
    ELSE SortInto(InsertDesc(sorted, Head(rest)), Tail(rest))

StableSortDesc(s) == SortInto(<<>>, s)

(***************************************************************************)
(* POST /api/batch-verify                                                  *)
(***************************************************************************)
\* mutant: verified taken from the library's verdict instead of the
\* caller's threshold
batch_verify_entry_library_verdict(url, result, threshold) ==
    LET similarity == One - Get(result, "distance", One)
    IN  [url |-> url,
         verified |-> Get(result, "verified", FALSE),
         distance |-> Get(result, "distance", One),
         similarity |-> similarity,
         match |-> Get(result, "verified", FALSE)]

\* lines 380-389: the entry of a compared candidate
batch_verify_entry(url, result, threshold) ==
    LET similarity == One - Get(result, "distance", One)
        verified == similarity > threshold
    IN  [url |-> url,
         verified |-> verified,
         distance |-> Get(result, "distance", One),
         similarity |-> similarity,
         match |-> Get(result, "verified", FALSE)]

\* mutant: the error entry reports similarity 1.0 instead of 0.0
batch_verify_error_entry_full_score(url, e) ==
    [url |-> url,
     verified |-> FALSE,
     distance |-> One,
     similarity |-> One,
     match |-> FALSE,
     error |-> Str(e)]

\* lines 391-399: the entry of a candidate whose fetch or comparison raised
batch_verify_error_entry(url, e) ==
    [url |-> url,
     verified |-> FALSE,
     distance |-> One,
     similarity |-> 0,
     match |-> FALSE,
     error |-> Str(e)]

\* mutant: a candidate that raises is skipped (except: continue)
batch_verify_iteration_skips_failed(results, url, outcome, threshold) ==
    IF ~outcome.fetched \/ outcome.verify.raised
    THEN results
    ELSE Append(results,
             [url |-> url,
              verified |-> One - Get(outcome.verify.value, "distance", One) > threshold,
              distance |-> Get(outcome.verify.value, "distance", One),
              similarity |-> One - Get(outcome.verify.value, "distance", One),
              match |-> Get(outcome.verify.value, "verified", FALSE)])

\* mutant: the entry is put at the front of results (results.insert(0, ...))
batch_verify_iteration_prepends(results, url, outcome, threshold) ==
    IF ~outcome.fetched \/ outcome.verify.raised
    THEN <<[url |-> url, verified |-> FALSE, distance |-> One, similarity |-> 0,
            match |-> FALSE, error |-> Str(Exception(OtherMsg))]>> \o results
    ELSE <<[url |-> url,
            verified |-> One - Get(outcome.verify.value, "distance", One) > threshold,
            distance |-> Get(outcome.verify.value, "distance", One),
            similarity |-> One - Get(outcome.verify.value, "distance", One),
            match |-> Get(outcome.verify.value, "verified", FALSE)]>> \o results

\* lines 365-399: one iteration of the loop over urls
batch_verify_iteration(results, url, outcome, threshold) ==
    LET compare_array == load_image_from_url(url, outcome.fetched) IN
    IF compare_array.raised
    THEN Append(results, batch_verify_error_entry(url, compare_array.exc))
    ELSE IF outcome.verify.raised
         THEN Append(results, batch_verify_error_entry(url, outcome.verify.exc))
         ELSE Append(results, batch_verify_entry(url, outcome.verify.value, threshold))

RECURSIVE batch_verify_loop(_, _, _, _, _)
\* lines 361-399: results = []; for i, url in enumerate(urls): ...
batch_verify_loop(urls, outcomes, threshold, i, results) ==
    IF i > Len(urls) THEN results
    ELSE batch_verify_loop(urls, outcomes, threshold, i + 1,
             batch_verify_iteration(results, urls[i], outcomes[i], threshold))

\* mutant: the list is sorted by similarity, descending, before it is returned
batch_verify_results_sorted(urls, outcomes, threshold) ==
    StableSortDesc(batch_verify_loop(urls, outcomes, threshold, 1, <<>>))

\* lines 361-399: the list the loop leaves in results
batch_verify_results(urls, outcomes, threshold) ==
    batch_verify_loop(urls, outcomes, threshold, 1, <<>>)

\* Python's a / b on ints: the fraction a/b, ZeroDivisionError for b = 0
TrueDiv(a, b) ==
    IF b = 0 THEN [raised |-> TRUE, num |-> 0, den |-> 1, exc |-> Exception("division by zero")]
    ELSE [raised |-> FALSE, num |-> a, den |-> b, exc |-> Exception("")]
\* the literal 0 of "... if urls else 0"
Zero == [raised |-> FALSE, num |-> 0, den |-> 1, exc |-> Exception("")]

\* mutant: match_rate divides without the "if urls" guard
batch_verify_summary_unguarded(urls, results) ==
    LET matches == SelectSeq(results, LAMBDA r : r.verified)
        match_rate == TrueDiv(Len(matches), Len(urls))
    IN  [raised |-> match_rate.raised,
         exc |-> match_rate.exc,
         total_images |-> Len(urls),
         matches |-> Len(matches),
         match_rate |-> [num |-> match_rate.num, den |-> match_rate.den]]

\* lines 404-415: matches and the summary (processing_time and
\* avg_time_per_image are clock readings, left out; avg_time_per_image has
\* the same guard as match_rate)
batch_verify_summary(urls, results) ==
    LET matches == SelectSeq(results, LAMBDA r : r.verified)
        match_rate == IF urls # <<>> THEN TrueDiv(Len(matches), Len(urls)) ELSE Zero
    IN  [raised |-> match_rate.raised,
         exc |-> match_rate.exc,
         total_images |-> Len(urls),
         matches |-> Len(matches),
         match_rate |-> [num |-> match_rate.num, den |-> match_rate.den]]

\* lines 406-420: the dict batch_verify returns
batch_verify_body(req, results, summary) ==
    [success |-> TRUE,
     results |-> results,
     summary |-> [total_images |-> summary.total_images,
                  matches |-> summary.matches,
                  match_rate |-> summary.match_rate],
     model |-> req.model,
     detector |-> req.detector,
     metrics |-> req.metrics,
     threshold |-> req.threshold]

\* lines 349-423
batch_verify_handler(available, req, outcomes) ==
    IF ~available
    THEN Handled(Raise(HTTPException(503, "DeepFace not available")), 0, 0)
    ELSE
    LET target_array == load_image_from_file(req.target_image) IN
    IF target_array.raised
    THEN Handled(RaiseWrapped("Batch verification failed", Str(target_array.exc)), 1, 0)
    ELSE IF req.image_urls.kind = "malformed"
    THEN \* json.loads raises
         Handled(RaiseWrapped("Batch verification failed", Str(Exception("Expecting value"))), 1, 0)
    ELSE IF req.image_urls.kind # "array"
    THEN \* the HTTPException(400) is raised inside the try and caught by
         \* "except Exception" at line 422
         Handled(RaiseWrapped("Batch verification failed",
                     Str(HTTPException(400, "image_urls must be a JSON array"))), 1, 0)
    ELSE
    LET urls == req.image_urls.list
        results == batch_verify_results(urls, outcomes, req.threshold)
        summary == batch_verify_summary(urls, results)
        loads == 1 + Len(urls)
        calls == Len(SelectSeq(outcomes, LAMBDA o : o.fetched))
    IN  IF summary.raised
        THEN Handled(RaiseWrapped("Batch verification failed", Str(summary.exc)), loads, calls)
        ELSE Handled(Return(batch_verify_body(req, results, summary)), loads, calls)

(***************************************************************************)
(* POST /api/analyze                                                       *)
(***************************************************************************)
\* a face dict of DeepFace.analyze (region and the distributions left out)
EmptyFace ==
    [keys |-> {}, confidence |-> 0, dominant_emotion |-> "", age |-> 0,
     dominant_gender |-> "", dominant_race |-> ""]
FullFace ==
    [keys |-> {"confidence", "dominant_emotion", "age", "dominant_gender", "dominant_race"},
     confidence |-> 7, dominant_emotion |-> "happy", age |-> 31,
     dominant_gender |-> "Woman", dominant_race |-> "asian"]
FaceDicts == {EmptyFace, FullFace}

SeqsUpTo(S, n) == UNION { [1..k -> S] : k \in 0..n }

AnalyzeReturns(kind, faces) ==
    [raised |-> FALSE, kind |-> kind, faces |-> faces, exc |-> Exception("")]
AnalyzeRaises(msg) ==
    [raised |-> TRUE, kind |-> "list", faces |-> <<>>, exc |-> Exception(msg)]

\* what one call of DeepFace.analyze does: a list of face dicts, one face
\* dict, or an exception
AnalyzeOutcomes ==
    { AnalyzeReturns("list", fs) : fs \in SeqsUpTo(FaceDicts, MaxFaces) }
    \cup { AnalyzeReturns("dict", <<f>>) : f \in FaceDicts }
    \cup { AnalyzeRaises(m) : m \in {NoFaceMsg, OtherMsg} }

\* lines 187-202 and 204-219: one serialised face
analyze_faces_face(face) ==
    [confidence |-> Get(face, "confidence", DefaultConfidence),
     emotion |-> Get(face, "dominant_emotion", "neutral"),
     age |-> Get(face, "age", 0),
     gender |-> Get(face, "dominant_gender", "unknown"),
     race |-> Get(face, "dominant_race", "unknown")]

\* the result of a try block: the dict it returns or the exception it
\* raises, with the loads and library calls made on the way
TryReturns(body, loads, calls) ==
    [raised |-> FALSE, body |-> body, exc |-> Exception(""),
     image_loads |-> loads, capability_calls |-> calls]
TryRaises(e, loads, calls) ==
    [raised |-> TRUE, body |-> NoBody, exc |-> e,
     image_loads |-> loads, capability_calls |-> calls]

\* lines 165-227: the try block
analyze_faces_try(req, e) ==
    IF ~Truthy(req.image) /\ ~Truthy(req.image_url)
    THEN TryRaises(HTTPException(400, "Either image file or image_url must be provided"), 0, 0)
    ELSE
    LET img_array == IF Truthy(req.image) THEN load_image_from_file(req.image)
                     ELSE load_image_from_url(req.image_url, e.fetched)
    IN  IF img_array.raised THEN TryRaises(img_array.exc, 1, 0)
        ELSE IF e.analysis.raised THEN TryRaises(e.analysis.exc, 1, 1)
        ELSE LET faces == [i \in 1..Len(e.analysis.faces) |->
                               analyze_faces_face(e.analysis.faces[i])]
             IN  TryReturns([success |-> TRUE,
                             faces |-> faces,
                             face_count |-> Len(faces),
                             detector |-> req.detector], 1, 1)

\* mutant: every exception becomes a 500, the no-face message not looked for
analyze_faces_except_always_500(exc, detector) ==
    RaiseWrapped("Analysis failed", Str(exc))

\* lines 229-241: the except clause
analyze_faces_except(exc, detector) ==
    LET error_msg == Str(exc) IN
    IF MentionsNoFace(error_msg)
    THEN Return([success |-> TRUE,
                 faces |-> <<>>,
                 face_count |-> 0,
                 detector |-> detector,
                 message |-> "No faces detected in the image"])
    ELSE RaiseWrapped("Analysis failed", error_msg)

\* lines 159-241
analyze_faces_handler(available, req, e) ==
    IF ~available
    THEN Handled(Raise(HTTPException(503, "DeepFace not available")), 0, 0)
    ELSE IF req.detector \notin AVAILABLE_DETECTORS
    THEN Handled(Raise(HTTPException(400, "Invalid detector")), 0, 0)
    ELSE LET tried == analyze_faces_try(req, e) IN
         IF tried.raised
         THEN Handled(analyze_faces_except(tried.exc, req.detector),
                      tried.image_loads, tried.capability_calls)
         ELSE Handled(Return(tried.body), tried.image_loads, tried.capability_calls)

(***************************************************************************)
(* POST /api/verify                                                        *)
(***************************************************************************)
\* lines 270-319: the try block (enforce_detection is only handed to the
\* library; processing_time and the facial areas are left out)
verify_faces_try(req, e) ==
    IF ~Truthy(req.img1) /\ ~Truthy(req.img1_url)
    THEN TryRaises(HTTPException(400, "First image must be provided"), 0, 0)
    ELSE
    LET img1_array == IF Truthy(req.img1) THEN load_image_from_file(req.img1)
                      ELSE load_image_from_url(req.img1_url, e.fetched1)
    IN  IF img1_array.raised THEN TryRaises(img1_array.exc, 1, 0)
        ELSE IF ~Truthy(req.img2) /\ ~Truthy(req.img2_url)
        THEN TryRaises(HTTPException(400, "Second image must be provided"), 1, 0)
        ELSE
        LET img2_array == IF Truthy(req.img2) THEN load_image_from_file(req.img2)
                          ELSE load_image_from_url(req.img2_url, e.fetched2)
        IN  IF img2_array.raised THEN TryRaises(img2_array.exc, 2, 0)
            ELSE IF e.verify.raised THEN TryRaises(e.verify.exc, 2, 1)
            ELSE LET result == e.verify.value IN
                 TryReturns([success |-> TRUE,
                             verified |-> Get(result, "verified", FALSE),
                             distance |-> Get(result, "distance", One),
                             similarity |-> One - Get(result, "distance", One),
                             threshold |-> Get(result, "threshold", DefaultThreshold),
                             model |-> req.model,
                             detector |-> req.detector,
                             metrics |-> req.metrics], 2, 1)

\* mutant: the no-face answer reports distance 0.0 next to similarity 0.0
verify_faces_except_zero_distance(exc, req) ==
    IF MentionsNoFace(Str(exc))
    THEN Return([success |-> TRUE,
                 verified |-> FALSE,
                 distance |-> 0,
                 similarity |-> 0,
                 message |-> "Face could not be detected in one or both images",
                 model |-> req.model,
                 detector |-> req.detector,
                 metrics |-> req.metrics])
    ELSE RaiseWrapped("Verification failed", Str(exc))

\* lines 321-335: the except clause
verify_faces_except(exc, req) ==
    LET error_msg == Str(exc) IN
    IF MentionsNoFace(error_msg)
    THEN Return([success |-> TRUE,
                 verified |-> FALSE,
                 distance |-> One,
                 similarity |-> 0,
                 message |-> "Face could not be detected in one or both images",
                 model |-> req.model,
                 detector |-> req.detector,
                 metrics |-> req.metrics])
    ELSE RaiseWrapped("Verification failed", error_msg)

\* lines 258-335
verify_faces_handler(available, req, e) ==
    IF ~available
    THEN Handled(Raise(HTTPException(503, "DeepFace not available")), 0, 0)
    ELSE IF req.model \notin AVAILABLE_MODELS
    THEN Handled(Raise(HTTPException(400, "Invalid model")), 0, 0)
    ELSE IF req.detector \notin AVAILABLE_DETECTORS
    THEN Handled(Raise(HTTPException(400, "Invalid detector")), 0, 0)
    ELSE IF req.metrics \notin AVAILABLE_METRICS
    THEN Handled(Raise(HTTPException(400, "Invalid metric")), 0, 0)
    ELSE LET tried == verify_faces_try(req, e) IN
         IF tried.raised
         THEN Handled(verify_faces_except(tried.exc, req),
                      tried.image_loads, tried.capability_calls)
         ELSE Handled(Return(tried.body), tried.image_loads, tried.capability_calls)

(***************************************************************************)
(* POST /api/detect                                                        *)
(***************************************************************************)
\* what detection.extract_faces yields per face: a numpy array, a dict with
\* an array under 'face', or anything else
FaceObjects == {"ndarray", "dict_with_face", "other"}

ExtractReturns(faces) == [raised |-> FALSE, faces |-> faces, exc |-> Exception("")]
ExtractRaises(msg) == [raised |-> TRUE, faces |-> <<>>, exc |-> Exception(msg)]

ExtractOutcomes ==
    { ExtractReturns(fs) : fs \in SeqsUpTo(FaceObjects, MaxFaces) }
    \cup { ExtractRaises(m) : m \in {NoFaceMsg, OtherMsg} }

\* lines 455-472: the regions of the face objects that carry an array
detect_faces_regions(faces) ==
    LET kept == SelectSeq(faces, LAMBDA f : f \in {"ndarray", "dict_with_face"})
    IN  [i \in 1..Len(kept) |-> [width |-> 1, height |-> 1]]

\* lines 437-479: the try block
detect_faces_try(req, e) ==
    IF ~Truthy(req.image) /\ ~Truthy(req.image_url)
    THEN TryRaises(HTTPException(400, "Either image file or image_url must be provided"), 0, 0)
    ELSE
    LET img_array == IF Truthy(req.image) THEN load_image_from_file(req.image)
                     ELSE load_image_from_url(req.image_url, e.fetched)
    IN  IF img_array.raised THEN TryRaises(img_array.exc, 1, 0)
        ELSE IF e.extract.raised THEN TryRaises(e.extract.exc, 1, 1)
        ELSE LET face_regions == detect_faces_regions(e.extract.faces) IN
             TryReturns([success |-> TRUE,
                         faces |-> face_regions,
                         face_count |-> Len(face_regions),
                         detector |-> req.detector], 1, 1)

\* lines 481-491: the except clause
detect_faces_except(exc, detector) ==
    LET error_msg == Str(exc) IN
    IF MentionsNoFace(error_msg)
    THEN Return([success |-> TRUE,
                 faces |-> <<>>,
                 face_count |-> 0,
                 detector |-> detector,
                 message |-> "No faces detected"])
    ELSE RaiseWrapped("Detection failed", error_msg)

\* mutant: the DEEPFACE_AVAILABLE check is missing
detect_faces_handler_unchecked(available, req, e) ==
    LET tried == detect_faces_try(req, e) IN
    IF tried.raised
    THEN Handled(detect_faces_except(tried.exc, req.detector),
                 tried.image_loads, tried.capability_calls)
    ELSE Handled(Return(tried.body), tried.image_loads, tried.capability_calls)

\* lines 434-491
detect_faces_handler(available, req, e) ==
    IF ~available
    THEN Handled(Raise(HTTPException(503, "DeepFace not available")), 0, 0)
    ELSE LET tried == detect_faces_try(req, e) IN
         IF tried.raised
         THEN Handled(detect_faces_except(tried.exc, req.detector),
                      tried.image_loads, tried.capability_calls)
         ELSE Handled(Return(tried.body), tried.image_loads, tried.capability_calls)

(***************************************************************************)
(* GET /, /health, /api/models, /api/detectors                             *)
(***************************************************************************)
\* lines 57-68
root_handler(available) ==
    Handled(Return([message |-> "DeepFace AI Server", version |-> "1.0.0"]), 0, 0)

\* lines 71-80 (timestamp left out)
health_check_handler(available) ==
    Handled(Return([status |-> IF available THEN "healthy" ELSE "error",
                    deepface_available |-> available,
                    models |-> IF available THEN AVAILABLE_MODELS ELSE {},
                    detectors |-> IF available THEN AVAILABLE_DETECTORS ELSE {},
                    metrics |-> IF available THEN AVAILABLE_METRICS ELSE {}]), 0, 0)

\* lines 83-88
get_models_handler(available) ==
    Handled(Return([success |-> TRUE, models |-> AVAILABLE_MODELS, default |-> "VGG-Face"]), 0, 0)

\* lines 91-101
get_detectors_handler(available) ==
    Handled(Return([success |-> TRUE, detectors |-> AVAILABLE_DETECTORS,
                    default |-> "opencv"]), 0, 0)

(***************************************************************************)
(* Face Matching API: POST /api/face-match/compare-faces                   *)
(***************************************************************************)
DistanceReturns(d) == [raised |-> FALSE, distance |-> d, exc |-> Exception("")]
DistanceRaises(msg) == [raised |-> TRUE, distance |-> 0, exc |-> Exception(msg)]

\* what face_recognition.face_distance does: a distance in tenths, or an
\* exception (encodings of different shapes)
DistanceOutcomes ==
    { DistanceReturns(d) : d \in {0, 3, 4, 5, 12} } \cup { DistanceRaises(OtherMsg) }

\* face_matching.py lines 202-219
compare_faces_handler(req, e) ==
    IF e.face_distance.raised
    THEN Handled(Raise(HTTPExceptionFrom(500, e.face_distance.exc.detail, "")), 0, 1)
    ELSE LET distance == e.face_distance.distance
             similarity == One - distance
         IN  Handled(Return([success |-> TRUE,
                             distance |-> distance,
                             similarity |-> similarity,
                             match |-> similarity >= FACE_MATCH_THRESHOLD]), 0, 1)

(***************************************************************************)
(* Face Matching API: FaceMatchingService                                  *)
(***************************************************************************)
\* A picture as the face_recognition library sees it: bytes that
\* load_image_file rejects, or an image with the encodings of its faces in
\* the library's order.  An encoding is a vector of one coordinate, in
\* tenths.
Undecodable == [kind |-> "undecodable", faces |-> <<>>]
Picture(faces) == [kind |-> "image", faces |-> faces]

\* face_recognition.face_distance([a], b)[0]: the euclidean norm of a - b
face_distance(a, b) == IF a >= b THEN a - b ELSE b - a

\* an Optional[np.ndarray]
NoEncoding == [found |-> FALSE, encoding |-> 0]
Encoding(v) == [found |-> TRUE, encoding |-> v]

\* face_matching.py lines 50-72: FaceMatchingService.extract_face_encoding
FaceMatchingService_extract_face_encoding(picture) ==
    IF picture.kind # "image" THEN NoEncoding      \* except Exception: return None
    ELSE LET face_locations == [i \in 1..Len(picture.faces) |-> i] IN
         IF Len(face_locations) = 0 THEN NoEncoding
         ELSE LET face_encodings == picture.faces IN
              IF Len(face_encodings) > 0 THEN Encoding(face_encodings[1])
              ELSE NoEncoding

\* mutant: the loop over the faces of an event image has no break
find_matching_faces_every_face(selfie_encoding, event_image, event_face_encodings) ==
    LET matching == SelectSeq(event_face_encodings,
                        LAMBDA enc : One - face_distance(selfie_encoding, enc)
                                         >= FACE_MATCH_THRESHOLD)
    IN  [k \in 1..Len(matching) |->
            [file_id |-> event_image._id,
             file_url |-> event_image.url,
             file_name |-> event_image.originalName,
             similarity |-> One - face_distance(selfie_encoding, matching[k]),
             confidence |-> (One - face_distance(selfie_encoding, matching[k])) * 100,
             face_distance |-> face_distance(selfie_encoding, matching[k])]]

RECURSIVE find_matching_faces_first_face(_, _, _)
\* face_matching.py lines 100-116: the entries one event image appends, the
\* one of its first face that reaches the threshold (break), or none
find_matching_faces_first_face(selfie_encoding, event_image, event_face_encodings) ==
    IF Len(event_face_encodings) = 0 THEN <<>>
    ELSE LET distance == face_distance(selfie_encoding, Head(event_face_encodings))
             similarity == One - distance
         IN  IF similarity >= FACE_MATCH_THRESHOLD
             THEN <<[file_id |-> event_image._id,
                     file_url |-> event_image.url,
                     file_name |-> event_image.originalName,
                     similarity |-> similarity,
                     confidence |-> similarity * 100,
                     face_distance |-> distance]>>
             ELSE find_matching_faces_first_face(selfie_encoding, event_image,
                                                 Tail(event_face_encodings))

\* face_matching.py lines 86-120: one iteration of the loop over event_images;
\* download_image gives None (lines 131-142) or the bytes, and an exception
\* while the picture is processed skips the image (continue)
find_matching_faces_iteration(matching_images, selfie_encoding, event_image, outcome) ==
    IF ~outcome.downloaded THEN matching_images
    ELSE IF outcome.picture.kind # "image" THEN matching_images
    ELSE matching_images \o
             find_matching_faces_first_face(selfie_encoding, event_image,
                                            outcome.picture.faces)

RECURSIVE find_matching_faces_loop(_, _, _, _, _)
\* face_matching.py lines 83-120
find_matching_faces_loop(selfie_encoding, event_images, outcomes, i, matching_images) ==
    IF i > Len(event_images) THEN matching_images
    ELSE find_matching_faces_loop(selfie_encoding, event_images, outcomes, i + 1,
             find_matching_faces_iteration(matching_images, selfie_encoding,
                                           event_images[i], outcomes[i]))

\* face_matching.py lines 74-129: FaceMatchingService.find_matching_faces
FaceMatchingService_find_matching_faces(selfie, event_images, outcomes) ==
    LET selfie_encoding == FaceMatchingService_extract_face_encoding(selfie) IN
    IF ~selfie_encoding.found THEN <<>>
    ELSE StableSortDesc(
             find_matching_faces_loop(selfie_encoding.encoding, event_images, outcomes,
                                      1, <<>>))

(***************************************************************************)
(* Face Matching API: POST /api/face-match/process-selfie,                 *)
(* POST /api/face-match/extract-encoding                                   *)
(***************************************************************************)
\* face_matching.py lines 154-172 (event_images is the empty list of line 159)
process_selfie_handler(req) ==
    LET event_images == <<>>
        matches == FaceMatchingService_find_matching_faces(req.selfie, event_images, <<>>)
    IN  Handled(Return([success |-> TRUE,
                        matches |-> matches,
                        total_matches |-> Len(matches),
                        selfie_processed |-> TRUE]), 0, 1)

\* face_matching.py lines 177-194: the HTTPException(400) of line 182 is
\* raised inside the try and caught by "except Exception" at line 193
extract_face_encoding_handler(req) ==
    LET encoding == FaceMatchingService_extract_face_encoding(req.image) IN
    IF ~encoding.found
    THEN Handled(Raise(HTTPExceptionFrom(500,
                     Str(HTTPException(400, "No face detected in image")).text, "")), 0, 1)
    ELSE LET encoding_list == <<encoding.encoding>> IN
         Handled(Return([success |-> TRUE,
                         encoding |-> encoding_list,
                         encoding_length |-> Len(encoding_list)]), 0, 1)

(***************************************************************************)
(* Requests and the environment                                            *)
(***************************************************************************)
\* an Optional[UploadFile]: absent, an image that decodes, bytes that do not
Files == {None, "valid", "corrupt"}
\* an Optional[str] URL form field: absent, empty, a URL
Urls == {None, "", "http://host/img"}
Models == {"VGG-Face", "bogus-model"}
Detectors == {"opencv", "bogus-detector"}
Metrics == {"cosine", "bogus-metric"}
\* thresholds of batch-verify, in tenths: the default 0.4, and 0.2
Thresholds == {DefaultThreshold, 2}
CandidateUrls == {"http://host/a", "http://host/b"}

\* the image_urls form field: text json.loads rejects, JSON that is no
\* array, or a JSON array of URLs
ImageUrlsFields ==
    { [kind |-> "malformed", list |-> <<>>], [kind |-> "object", list |-> <<>>] }
    \cup { [kind |-> "array", list |-> us] : us \in SeqsUpTo(CandidateUrls, MaxUrls) }

\* model, detector and metrics of a batch-verify request: all allowed, or
\* one of them outside its list
BatchParams ==
    { <<"VGG-Face", "opencv", "cosine">>, <<"bogus-model", "opencv", "cosine">>,
      <<"VGG-Face", "bogus-detector", "cosine">>, <<"VGG-Face", "opencv", "bogus-metric">> }

\* what the environment does for one candidate of a batch: the fetch fails,
\* or it succeeds and DeepFace.verify returns or raises
NotCalled == VerifyRaises("")
CandidateOutcomes ==
    { [fetched |-> FALSE, verify |-> NotCalled] }
    \cup { [fetched |-> TRUE, verify |-> VerifyReturns(d)] : d \in VerifyDicts }
    \cup { [fetched |-> TRUE, verify |-> VerifyRaises(OtherMsg)] }

\* lines 349-359: the candidate loop is reached
batch_verify_reaches_loop(available, req) ==
    /\ available
    /\ ~load_image_from_file(req.target_image).raised
    /\ req.image_urls.kind = "array"

\* face encodings of event pictures, and the pictures themselves
Encodings == {1, 4, 5}
Pictures == {Undecodable} \cup { Picture(fs) : fs \in SeqsUpTo(Encodings, MaxFaces) }
\* selfies: undecodable bytes, no face, one face, two faces
Selfies == {Undecodable, Picture(<<>>), Picture(<<0>>), Picture(<<0, 5>>)}

\* the i-th event image of a list, as the database would hand it over
EventImage(i) ==
    [_id |-> i, url |-> <<"http://host/event", i>>, originalName |-> <<"photo", i>>]
EventImages(k) == [i \in 1..k |-> EventImage(i)]

\* what the environment does for one event image: download_image gives
\* None, or the bytes of a picture
EventOutcomes ==
    { [downloaded |-> FALSE, picture |-> Undecodable] }
    \cup { [downloaded |-> TRUE, picture |-> p] : p \in Pictures }

\* the return value of a method called directly: no HTTP answer
Returned(value) == [status_code |-> 0, body |-> value, detail |-> NoDetail]

(***************************************************************************)
(* State shared between requests, and the frames of requests in flight     *)
(***************************************************************************)
\* the module-level objects a handler can reach: the listings of
\* deepface_server.py lines 52-54 and face_service of face_matching.py
\* line 145 with the fields of lines 33-34
InitialGlobals ==
    [AVAILABLE_MODELS |-> AVAILABLE_MODELS,
     AVAILABLE_DETECTORS |-> AVAILABLE_DETECTORS,
     AVAILABLE_METRICS |-> AVAILABLE_METRICS,
     face_service |-> [known_face_encodings |-> <<>>, known_face_names |-> <<>>]]

RequestIds == {1, 2}

NoRequest == [none |-> TRUE]
NoEnv == [none |-> TRUE]
NoResponse == [status_code |-> 0, body |-> NoBody, detail |-> NoDetail]

\* the locals of one request in flight; concurrent records that one of its
\* steps ran while another request was in flight
IdleFrame ==
    [pc |-> "idle", kind |-> "none", req |-> NoRequest, outcomes |-> <<>>, i |-> 0,
     results |-> <<>>, response |-> NoResponse, concurrent |-> FALSE]

Init ==
    /\ DEEPFACE_AVAILABLE \in BOOLEAN
    /\ pc = "idle"
    /\ endpoint = "none"
    /\ request = NoRequest
    /\ env = NoEnv
    /\ response = NoResponse
    /\ image_loads = 0
    /\ capability_calls = 0
    /\ globals = InitialGlobals
    /\ frames = [r \in RequestIds |-> IdleFrame]

\* a request is handled to its response
Handle(name, req, e, handled) ==
    /\ pc = "idle"
    /\ pc' = "done"
    /\ endpoint' = name
    /\ request' = req
    /\ env' = e
    /\ response' = handled.response
    /\ image_loads' = handled.image_loads
    /\ capability_calls' = handled.capability_calls
    /\ UNCHANGED <<DEEPFACE_AVAILABLE, globals, frames>>

root ==
    /\ pc = "idle"
    /\ Handle("/", NoRequest, NoEnv, root_handler(DEEPFACE_AVAILABLE))

health_check ==
    /\ pc = "idle"
    /\ Handle("/health", NoRequest, NoEnv, health_check_handler(DEEPFACE_AVAILABLE))

get_models ==
    /\ pc = "idle"
    /\ Handle("/api/models", NoRequest, NoEnv, get_models_handler(DEEPFACE_AVAILABLE))

get_detectors ==
    /\ pc = "idle"
    /\ Handle("/api/detectors", NoRequest, NoEnv, get_detectors_handler(DEEPFACE_AVAILABLE))

analyze_faces ==
    /\ pc = "idle"
    /\ \E image \in Files, image_url \in Urls, detector \in Detectors,
          enforce_detection \in BOOLEAN, fetched \in BOOLEAN, analysis \in AnalyzeOutcomes :
        LET req == [image |-> image, image_url |-> image_url, detector |-> detector,
                    enforce_detection |-> enforce_detection]
            e == [fetched |-> fetched, analysis |-> analysis]
        IN  Handle("/api/analyze", req, e, analyze_faces_handler(DEEPFACE_AVAILABLE, req, e))

verify_faces ==
    /\ pc = "idle"
    /\ \E img1 \in Files, img2 \in Files, img1_url \in Urls, img2_url \in Urls,
          model \in Models, detector \in Detectors, metrics \in Metrics,
          fetched1 \in BOOLEAN, fetched2 \in BOOLEAN, verify \in VerifyOutcomes :
        LET req == [img1 |-> img1, img2 |-> img2, img1_url |-> img1_url,
                    img2_url |-> img2_url, model |-> model, detector |-> detector,
                    metrics |-> metrics]
            e == [fetched1 |-> fetched1, fetched2 |-> fetched2, verify |-> verify]
        IN  Handle("/api/verify", req, e, verify_faces_handler(DEEPFACE_AVAILABLE, req, e))

batch_verify ==
    /\ pc = "idle"
    /\ \E target_image \in {"valid", "corrupt"}, image_urls \in ImageUrlsFields,
          params \in BatchParams, threshold \in Thresholds :
        LET req == [target_image |-> target_image, image_urls |-> image_urls,
                    model |-> params[1], detector |-> params[2], metrics |-> params[3],
                    threshold |-> threshold]
            n == IF batch_verify_reaches_loop(DEEPFACE_AVAILABLE, req)
                 THEN Len(image_urls.list) ELSE 0
        IN  \E outcomes \in [1..n -> CandidateOutcomes] :
                Handle("/api/batch-verify", req, outcomes,
                       batch_verify_handler(DEEPFACE_AVAILABLE, req, outcomes))

detect_faces ==
    /\ pc = "idle"
    /\ \E image \in Files, image_url \in Urls, detector \in Detectors,
          fetched \in BOOLEAN, extract \in ExtractOutcomes :
        LET req == [image |-> image, image_url |-> image_url, detector |-> detector]
            e == [fetched |-> fetched, extract |-> extract]
        IN  Handle("/api/detect", req, e, detect_faces_handler(DEEPFACE_AVAILABLE, req, e))

compare_faces ==
    /\ pc = "idle"
    /\ \E encoding1 \in {"enc-a", "enc-b"}, encoding2 \in {"enc-a", "enc-b"},
          outcome \in DistanceOutcomes :
        LET req == [encoding1 |-> encoding1, encoding2 |-> encoding2]
            e == [face_distance |-> outcome]
        IN  Handle("/api/face-match/compare-faces", req, e, compare_faces_handler(req, e))

process_selfie ==
    /\ pc = "idle"
    /\ \E selfie \in Selfies :
        LET req == [selfie |-> selfie] IN
        Handle("/api/face-match/process-selfie", req, NoEnv, process_selfie_handler(req))

extract_face_encoding ==
    /\ pc = "idle"
    /\ \E image \in Selfies \cup Pictures :
        LET req == [image |-> image] IN
        Handle("/api/face-match/extract-encoding", req, NoEnv,
               extract_face_encoding_handler(req))

\* a call of face_service.find_matching_faces with a list of event images
find_matching_faces ==
    /\ pc = "idle"
    /\ \E selfie \in Selfies, k \in 0..MaxEventImages :
        LET req == [selfie |-> selfie, event_images |-> EventImages(k)]
            n == IF FaceMatchingService_extract_face_encoding(selfie).found
                 THEN k ELSE 0
        IN  \E outcomes \in [1..n -> EventOutcomes] :
                Handle("FaceMatchingService.find_matching_faces", req, outcomes,
                       Handled(Returned([matches |->
                                   FaceMatchingService_find_matching_faces(
                                       selfie, req.event_images, outcomes)]), 0, 1))

\* the framework sends the response; nothing of the request is kept
Respond ==
    /\ pc = "done"
    /\ pc' = "idle"
    /\ endpoint' = "none"
    /\ request' = NoRequest
    /\ env' = NoEnv
    /\ response' = NoResponse
    /\ image_loads' = 0
    /\ capability_calls' = 0
    /\ UNCHANGED <<DEEPFACE_AVAILABLE, globals, frames>>

Next ==
    \/ root
    \/ health_check
    \/ get_models
    \/ get_detectors
    \/ analyze_faces
    \/ verify_faces
    \/ batch_verify
    \/ detect_faces
    \/ compare_faces
    \/ process_selfie
    \/ extract_face_encoding
    \/ find_matching_faces
    \/ Respond

Spec == Init /\ [][Next]_vars

(***************************************************************************)
(* Concurrent requests                                                     *)
(***************************************************************************)
\* requests of the concurrent runs: each request has its own URL, a
\* candidate fails to load or is compared at distance 0.2 or 0.8
ConcUrl(r) == IF r = 1 THEN "http://host/a" ELSE "http://host/b"
ConcOutcomes ==
    { [fetched |-> FALSE, verify |-> NotCalled],
      [fetched |-> TRUE, verify |-> VerifyReturns(VerifyDict(2, TRUE))],
      [fetched |-> TRUE, verify |-> VerifyReturns(VerifyDict(8, TRUE))] }

InFlight(f) == f.pc \notin {"idle", "done"}

\* the frame f becomes the frame of request r
Store(mem, r, f) ==
    [mem EXCEPT !.frames[r] =
        [f EXCEPT !.concurrent =
            @ \/ \E o \in RequestIds \ {r} : InFlight(mem.frames[o])]]

\* deepface_server.py lines 349-362: batch_verify up to "results = []"; a
\* request that does not reach the loop is answered at once
batch_verify_enter(mem, r, req, outcomes) ==
    IF batch_verify_reaches_loop(DEEPFACE_AVAILABLE, req)
    THEN Store(mem, r, [pc |-> "loop", kind |-> "batch_verify", req |-> req,
                        outcomes |-> outcomes, i |-> 1, results |-> <<>>,
                        response |-> NoResponse, concurrent |-> FALSE])
    ELSE Store(mem, r, [pc |-> "done", kind |-> "batch_verify", req |-> req,
                        outcomes |-> outcomes, i |-> 0, results |-> <<>>,
                        response |-> batch_verify_handler(DEEPFACE_AVAILABLE, req,
                                                          outcomes).response,
                        concurrent |-> FALSE])

\* mutant: results is a list of the shared face_service instead of a local
batch_verify_step_shared_results(mem, r) ==
    LET f == mem.frames[r]
        shared == mem.globals.face_service.known_face_encodings
        results == batch_verify_iteration(shared, f.req.image_urls.list[f.i],
                                          f.outcomes[f.i], f.req.threshold)
    IN  Store([mem EXCEPT !.globals.face_service.known_face_encodings = results],
              r, [f EXCEPT !.results = results, !.i = f.i + 1])

\* deepface_server.py lines 364-399: one iteration of the loop, on the
\* request's own results list
batch_verify_step(mem, r) ==
    LET f == mem.frames[r]
        results == batch_verify_iteration(f.results, f.req.image_urls.list[f.i],
                                          f.outcomes[f.i], f.req.threshold)
    IN  Store(mem, r, [f EXCEPT !.results = results, !.i = f.i + 1])

\* deepface_server.py lines 401-423: the summary and the answer
batch_verify_leave(mem, r) ==
    LET f == mem.frames[r]
        summary == batch_verify_summary(f.req.image_urls.list, f.results)
        answer == IF summary.raised
                  THEN RaiseWrapped("Batch verification failed", Str(summary.exc))
                  ELSE Return(batch_verify_body(f.req, f.results, summary))
    IN  Store(mem, r, [f EXCEPT !.pc = "done", !.response = answer])

\* face_matching.py lines 154-156: process_selfie up to "await selfie.read()"
process_selfie_enter(mem, r, req) ==
    Store(mem, r, [pc |-> "read", kind |-> "process_selfie", req |-> req,
                   outcomes |-> <<>>, i |-> 0, results |-> <<>>,
                   response |-> NoResponse, concurrent |-> FALSE])

\* face_matching.py lines 158-169: the matches and the answer
process_selfie_leave(mem, r) ==
    LET f == mem.frames[r]
        matches == FaceMatchingService_find_matching_faces(f.req.selfie, <<>>, <<>>)
    IN  Store(mem, r, [f EXCEPT !.pc = "done", !.results = matches,
                                !.response = Return([success |-> TRUE,
                                                     matches |-> matches,
                                                     total_matches |-> Len(matches),
                                                     selfie_processed |-> TRUE])])

Mem == [globals |-> globals, frames |-> frames]

\* a step of a request in flight changes the shared state and the frames
Step(mem) ==
    /\ globals' = mem.globals
    /\ frames' = mem.frames
    /\ UNCHANGED <<DEEPFACE_AVAILABLE, pc, endpoint, request, env, response,
                   image_loads, capability_calls>>

batch_verify_begin ==
    \E r \in RequestIds :
        /\ frames[r].pc = "idle"
        /\ \E target_image \in {"valid", "corrupt"},
              urls \in SeqsUpTo({ConcUrl(r)}, ConcMaxUrls) :
            LET req == [target_image |-> target_image,
                        image_urls |-> [kind |-> "array", list |-> urls],
                        model |-> "VGG-Face", detector |-> "opencv",
                        metrics |-> "cosine", threshold |-> DefaultThreshold]
                n == IF batch_verify_reaches_loop(DEEPFACE_AVAILABLE, req)
                     THEN Len(urls) ELSE 0
            IN  \E outcomes \in [1..n -> ConcOutcomes] :
                    Step(batch_verify_enter(Mem, r, req, outcomes))

batch_verify_iterate ==
    \E r \in RequestIds :
        /\ frames[r].pc = "loop"
        /\ frames[r].i <= Len(frames[r].req.image_urls.list)
        /\ Step(batch_verify_step(Mem, r))

batch_verify_return ==
    \E r \in RequestIds :
        /\ frames[r].pc = "loop"
        /\ frames[r].i > Len(frames[r].req.image_urls.list)
        /\ Step(batch_verify_leave(Mem, r))

process_selfie_begin ==
    \E r \in RequestIds :
        /\ frames[r].pc = "idle"
        /\ \E selfie \in {Undecodable, Picture(<<0>>)} :
               Step(process_selfie_enter(Mem, r, [selfie |-> selfie]))

process_selfie_return ==
    \E r \in RequestIds :
        /\ frames[r].pc = "read"
        /\ Step(process_selfie_leave(Mem, r))

\* the framework sends the response of a request and drops its frame
RespondTo ==
    \E r \in RequestIds :
        /\ frames[r].pc = "done"
        /\ Step([Mem EXCEPT !.frames[r] = IdleFrame])

ConcNext ==
    \/ batch_verify_begin
    \/ batch_verify_iterate
    \/ batch_verify_return
    \/ process_selfie_begin
    \/ process_selfie_return
    \/ RespondTo

ConcSpec == Init /\ [][ConcNext]_vars

(***************************************************************************)
(* Properties                                                              *)
(***************************************************************************)
Answered(name) == pc = "done" /\ endpoint = name

\* a batch-verify request whose target image loaded and whose image_urls
\* parsed to a list has been answered
BatchAnswered ==
    /\ Answered("/api/batch-verify")
    /\ batch_verify_reaches_loop(DEEPFACE_AVAILABLE, request)

BatchUrls == request.image_urls.list
BatchResults == response.body.results

\* the candidate's fetch or its comparison raised
CandidateFailed(o) == ~o.fetched \/ o.verify.raised
\* 1 - distance of a compared candidate, 0 for a failed one
CandidateSimilarity(o) ==
    IF CandidateFailed(o) THEN 0 ELSE One - Get(o.verify.value, "distance", One)

Occurrences(seq, u) == Cardinality({ i \in 1..Len(seq) : seq[i] = u })
EntriesFor(seq, u) == Cardinality({ i \in 1..Len(seq) : seq[i].url = u })

\* C1: a batch-verify request whose target image loaded and whose image_urls
\* parsed to a list is answered with a results list of the input's length,
\* holding for every URL as many entries as the URL occurs in the input,
\* whichever candidates failed.
C1_OneEntryPerCandidate ==
    BatchAnswered =>
        /\ response.status_code = 200
        /\ Len(BatchResults) = Len(BatchUrls)
        /\ \A u \in CandidateUrls :
               EntriesFor(BatchResults, u) = Occurrences(BatchUrls, u)

\* C1 witness: a URL given twice, one of its fetches failing, answered with
\* three entries
C1_Witness ==
    /\ BatchAnswered
    /\ Len(BatchUrls) = 3
    /\ BatchUrls[1] = BatchUrls[2]
    /\ ~env[1].fetched
    /\ env[2].fetched
    /\ Len(BatchResults) = 3

\* what the i-th candidate contributes, read off the environment
ExpectedInInputOrder ==
    [i \in 1..Len(BatchUrls) |->
        [url |-> BatchUrls[i], similarity |-> CandidateSimilarity(env[i])]]
ReturnedOrder ==
    [i \in 1..Len(BatchResults) |->
        [url |-> BatchResults[i].url, similarity |-> BatchResults[i].similarity]]

C3_FailureIsolated ==
    BatchAnswered =>
        /\ response.status_code = 200
        /\ response.body.success
        /\ Len(BatchResults) = Len(BatchUrls)
        /\ \A i \in 1..Len(BatchResults) :
               LET r == BatchResults[i] IN
               /\ CandidateFailed(env[i]) =>
                      /\ "error" \in DOMAIN r
                      /\ ~r.verified
                      /\ r.similarity = 0
               /\ ~CandidateFailed(env[i]) =>
                      /\ "error" \notin DOMAIN r
                      /\ r.similarity = CandidateSimilarity(env[i])
               /\ "error" \in DOMAIN r => r.similarity = 0 /\ ~r.verified

\* C3 witness: the first candidate failed, a later one was compared and
\* verified
C3_Witness ==
    /\ BatchAnswered
    /\ Len(BatchResults) = 3
    /\ "error" \in DOMAIN BatchResults[1]
    /\ env[2].fetched /\ env[2].verify.raised
    /\ "error" \notin DOMAIN BatchResults[3]
    /\ BatchResults[3].verified

\* C4: total_images is the number of candidates, matches the number of
\* verified entries (none of them errored), match_rate is matches over
\* total_images for a non-empty list and 0 for the empty one, and the
\* request is answered (no division by zero).
C4_Summary ==
    BatchAnswered =>
        /\ response.status_code = 200
        /\ LET summary == response.body.summary
               verified == { i \in 1..Len(BatchResults) : BatchResults[i].verified }
           IN  /\ summary.total_images = Len(BatchUrls)
               /\ summary.matches = Cardinality(verified)
               /\ \A i \in verified : ~CandidateFailed(env[i])
               /\ 0 <= summary.matches /\ summary.matches <= summary.total_images
               /\ summary.match_rate.den # 0
               /\ Len(BatchUrls) > 0 =>
                      summary.match_rate.num * summary.total_images
                          = summary.matches * summary.match_rate.den
               /\ Len(BatchUrls) = 0 => summary.match_rate.num = 0

\* C4 witness: three candidates, one errored, one verified, one not
C4_Witness ==
    /\ BatchAnswered
    /\ response.status_code = 200
    /\ response.body.summary.total_images = 3
    /\ response.body.summary.matches = 1
    /\ \E i \in 1..3 : CandidateFailed(env[i])

\* C5: for a compared candidate, verified is 1 - distance > threshold with
\* the request's threshold, and match is the library's own verdict.
C5_VerifiedByCallerThreshold ==
    BatchAnswered =>
        \A i \in 1..Len(BatchResults) :
            ~CandidateFailed(env[i]) =>
                LET result == env[i].verify.value IN
                /\ BatchResults[i].verified
                       <=> (One - Get(result, "distance", One) > request.threshold)
                /\ BatchResults[i].match = Get(result, "verified", FALSE)

\* C5 witness: one response in which the two flags disagree both ways, next
\* to an entry in which they agree
C5_Witness ==
    /\ BatchAnswered
    /\ Len(BatchResults) = 3
    /\ BatchResults[1].verified /\ ~BatchResults[1].match
    /\ ~BatchResults[2].verified /\ BatchResults[2].match
    /\ BatchResults[3].verified /\ BatchResults[3].match

\* C6: wherever a distance and a similarity are reported together
\* (verify, its no-face answer, batch-verify entries, compare-faces),
\* similarity = 1 - distance.
C6_SimilarityIsOneMinusDistance ==
    /\ (Answered("/api/verify") /\ response.status_code = 200) =>
           response.body.similarity = One - response.body.distance
    /\ (Answered("/api/face-match/compare-faces") /\ response.status_code = 200) =>
           response.body.similarity = One - response.body.distance
    /\ (Answered("/api/batch-verify") /\ response.status_code = 200) =>
           \A i \in 1..Len(BatchResults) :
               BatchResults[i].similarity = One - BatchResults[i].distance

\* C6 witness: the no-face answer of verify
C6_Witness ==
    /\ Answered("/api/verify")
    /\ response.status_code = 200
    /\ "message" \in DOMAIN response.body
    /\ response.body.distance = One

\* the request carries a model, detector or metrics value outside its list
InvalidParameter ==
    \/ /\ endpoint \in {"/api/analyze", "/api/detect"}
       /\ request.detector \notin AVAILABLE_DETECTORS
    \/ /\ endpoint \in {"/api/verify", "/api/batch-verify"}
       /\ \/ request.model \notin AVAILABLE_MODELS
          \/ request.detector \notin AVAILABLE_DETECTORS
          \/ request.metrics \notin AVAILABLE_METRICS

\* C7: with the library available, a request to analyze, verify,
\* batch-verify or detect whose model, detector or metrics is outside the
\* allowed list is answered 400, no image loaded and the library not called.
C7_InvalidParameterRejected ==
    (pc = "done" /\ DEEPFACE_AVAILABLE /\ InvalidParameter) =>
        /\ response.status_code = 400
        /\ image_loads = 0
        /\ capability_calls = 0

\* a required image has neither a file nor a URL
MissingImage ==
    \/ /\ endpoint \in {"/api/analyze", "/api/detect"}
       /\ ~Truthy(request.image) /\ ~Truthy(request.image_url)
    \/ /\ endpoint = "/api/verify"
       /\ \/ ~Truthy(request.img1) /\ ~Truthy(request.img1_url)
          \/ ~Truthy(request.img2) /\ ~Truthy(request.img2_url)

\* C8: with the library available, a request to analyze, verify or detect
\* that gives neither a file nor a URL for a required image is answered 400.
C8_MissingImageRejected ==
    (pc = "done" /\ DEEPFACE_AVAILABLE /\ MissingImage) =>
        response.status_code = 400

GetEndpoints == {"/", "/health", "/api/models", "/api/detectors"}
PostEndpoints == {"/api/analyze", "/api/verify", "/api/batch-verify", "/api/detect"}

\* C9 as stated: with DEEPFACE_AVAILABLE false, every endpoint of the
\* DeepFace service answers 503.
C9_EveryEndpoint503 ==
    (pc = "done" /\ ~DEEPFACE_AVAILABLE /\ endpoint \in GetEndpoints \cup PostEndpoints) =>
        response.status_code = 503

\* C9 amended: with DEEPFACE_AVAILABLE false, analyze, verify, batch-verify
\* and detect answer 503 without loading an image or calling the library;
\* /, /health, /api/models and /api/detectors still answer 200, /health
\* with status "error" and deepface_available false.
C9_ProcessingEndpoints503 ==
    (pc = "done" /\ ~DEEPFACE_AVAILABLE) =>
        /\ endpoint \in PostEndpoints =>
               /\ response.status_code = 503
               /\ image_loads = 0
               /\ capability_calls = 0
        /\ endpoint \in GetEndpoints => response.status_code = 200
        /\ endpoint = "/health" =>
               /\ response.body.status = "error"
               /\ ~response.body.deepface_available

\* C9 witness: detect answered 503 for a request that is otherwise fine
C9_Witness ==
    /\ Answered("/api/detect")
    /\ ~DEEPFACE_AVAILABLE
    /\ request.image = "valid"
    /\ response.status_code = 503

\* the library was called and raised its "face could not be detected" error
NoFaceSignalled ==
    /\ capability_calls = 1
    /\ \/ /\ endpoint = "/api/analyze"
          /\ env.analysis.raised
          /\ env.analysis.exc.detail = NoFaceMsg
       \/ /\ endpoint = "/api/verify"
          /\ env.verify.raised
          /\ env.verify.exc.detail = NoFaceMsg
       \/ /\ endpoint = "/api/detect"
          /\ env.extract.raised
          /\ env.extract.exc.detail = NoFaceMsg

\* C10: on analyze, verify and detect, a "no face detected" signal of the
\* library is answered 200 with success=true and the empty result
\* (face_count=0; verified=false, similarity=0.0, distance=1.0).
C10_NoFaceIsSuccess ==
    (pc = "done" /\ endpoint \in {"/api/analyze", "/api/verify", "/api/detect"}
        /\ NoFaceSignalled) =>
        /\ response.status_code = 200
        /\ response.body.success
        /\ endpoint \in {"/api/analyze", "/api/detect"} =>
               response.body.face_count = 0 /\ Len(response.body.faces) = 0
        /\ endpoint = "/api/verify" =>
               /\ ~response.body.verified
               /\ response.body.similarity = 0
               /\ response.body.distance = One

\* C10 witness: analyze with enforce_detection on, the library finding no face
C10_Witness ==
    /\ Answered("/api/analyze")
    /\ request.enforce_detection
    /\ NoFaceSignalled
    /\ response.status_code = 200
    /\ response.body.face_count = 0


\* C13: in every batch-verify response the i-th result entry carries the
\* i-th input URL: the candidates are taken in input order and the list
\* keeps that order.
C13_EntryCarriesItsUrl ==
    BatchAnswered =>
        /\ Len(BatchResults) = Len(BatchUrls)
        /\ \A i \in 1..Len(BatchResults) : BatchResults[i].url = BatchUrls[i]

\* C13 witness: three candidates with different neighbours, the middle one
\* failing, answered in the order given
C13_Witness ==
    /\ BatchAnswered
    /\ Len(BatchUrls) = 3
    /\ BatchUrls[1] # BatchUrls[2]
    /\ BatchUrls[2] # BatchUrls[3]
    /\ CandidateFailed(env[2])
    /\ ~CandidateFailed(env[3])
    /\ BatchResults[1].url = BatchUrls[1]
    /\ BatchResults[3].url = BatchUrls[3]


\* the first encoding of the selfie of a find_matching_faces call
SelfieHasFace == request.selfie.kind = "image" /\ Len(request.selfie.faces) > 0
SelfieEncoding == request.selfie.faces[1]

\* the faces of the e-th event image that reach the threshold, in the
\* library's order; none when the download or the processing failed
ReachingFaces(e) ==
    IF env[e].downloaded /\ env[e].picture.kind = "image"
    THEN SelectSeq(env[e].picture.faces,
             LAMBDA enc : One - face_distance(SelfieEncoding, enc) >= FACE_MATCH_THRESHOLD)
    ELSE <<>>

\* C12: find_matching_faces returns a list sorted by similarity, descending,
\* every entry with similarity >= 0.6; an event image has one entry, that of
\* its first face reaching the threshold, or none when it has no such face
\* or its download or processing failed; a selfie without a face gives the
\* empty list.
C12_FindMatchingFaces ==
    Answered("FaceMatchingService.find_matching_faces") =>
        LET matches == response.body.matches IN
        /\ ~SelfieHasFace => matches = <<>>
        /\ \A i \in 1..Len(matches) : matches[i].similarity >= FACE_MATCH_THRESHOLD
        /\ \A i, j \in 1..Len(matches) :
               i < j => matches[i].similarity >= matches[j].similarity
        /\ SelfieHasFace =>
               \A e \in 1..Len(request.event_images) :
                   LET entries == { i \in 1..Len(matches) :
                                      matches[i].file_id = request.event_images[e]._id }
                   IN  /\ Cardinality(entries) <= 1
                       /\ (entries # {}) <=> (Len(ReachingFaces(e)) > 0)
                       /\ \A i \in entries :
                              matches[i].similarity
                                  = One - face_distance(SelfieEncoding, ReachingFaces(e)[1])

\* C12 witness: the first image's first face misses the threshold and its
\* second reaches it (0.6), the second image has two faces reaching it (0.9
\* first); the list holds the second image's entry, then the first's
C12_Witness ==
    /\ Answered("FaceMatchingService.find_matching_faces")
    /\ SelfieHasFace
    /\ Len(request.event_images) = 2
    /\ env[1].downloaded /\ env[1].picture = Picture(<<5, 4>>)
    /\ env[2].downloaded /\ env[2].picture = Picture(<<1, 4>>)
    /\ Len(response.body.matches) = 2
    /\ response.body.matches[1].file_id = 2
    /\ response.body.matches[1].similarity = 9
    /\ response.body.matches[2].file_id = 1

\* C14: the extract-encoding endpoint answers 400 with detail "No face
\* detected in image" whenever the image yields no encoding, and 500 only
\* for other failures.
C14_NoFaceIs400 ==
    Answered("/api/face-match/extract-encoding") =>
        LET encoding == FaceMatchingService_extract_face_encoding(request.image) IN
        /\ ~encoding.found =>
               /\ response.status_code = 400
               /\ response.detail.text = "No face detected in image"
        /\ response.status_code = 500 => encoding.found


\* what the request of frame f is answered when it runs alone
AloneResponse(f) ==
    IF f.kind = "batch_verify"
    THEN batch_verify_handler(DEEPFACE_AVAILABLE, f.req, f.outcomes).response
    ELSE process_selfie_handler(f.req).response

\* the entries of two result lists agree, field by field
SameResults(a, b) ==
    /\ Len(a) = Len(b)
    /\ \A i \in 1..Len(a) :
           /\ DOMAIN a[i] = DOMAIN b[i]
           /\ \A k \in DOMAIN a[i] : a[i][k] = b[i][k]

\* C11: under any interleaving of requests, every answered request has the
\* status, result list and summary it has when run alone, and the
\* module-level listings and the fields of face_service are as at start.
C11_RequestsIndependent ==
    /\ globals = InitialGlobals
    /\ \A r \in RequestIds :
           frames[r].pc = "done" =>
               LET got == frames[r].response
                   alone == AloneResponse(frames[r])
               IN  /\ got.status_code = alone.status_code
                   /\ (got.status_code = 200 /\ frames[r].kind = "batch_verify") =>
                          /\ SameResults(got.body.results, alone.body.results)
                          /\ got.body.summary = alone.body.summary
                   /\ (got.status_code = 200 /\ frames[r].kind = "process_selfie") =>
                          got.body = alone.body

\* C11 witness: two batch-verify requests of two candidates each, both
\* answered, each having taken steps while the other was in flight
C11_Witness ==
    /\ \A r \in RequestIds :
           /\ frames[r].pc = "done"
           /\ frames[r].kind = "batch_verify"
           /\ frames[r].concurrent
           /\ frames[r].response.status_code = 200
           /\ Len(frames[r].response.body.results) = 2
    /\ "error" \in DOMAIN frames[1].response.body.results[1]
    /\ frames[2].response.body.results[1].verified

====
